---- MODULE Spec2Model ----
(***************************************************************************)
(* A model of hvcwatch: the alert deduplication store (db.py), the e-mail  *)
(* pipeline (email_monitor.py) and the market gate (utils.py).             *)
(***************************************************************************)
EXTENDS Integers, Sequences, FiniteSets, Bags, TLC

VARIABLES
    store,      \* the rows of table hvc_alerts, a bag
    call,       \* the call to the store's API that is being made, or NoCall
    sent,       \* the notifications dispatched so far, in order
    trace,      \* the calls made while processing the current message
    msg,        \* the message processed last, or NoMsg
    processed,  \* the number of messages processed so far
    settings,   \* the configuration, fixed when the program starts
    mailbox,    \* the IMAP mailbox and the position of the monitor in its loop
    conns,      \* the number of sqlite connections that are open
    instance,   \* the running instances that share the store, and where each is
    clock       \* the system clock, and the time at which utils.py was imported

vars == <<store, call, sent, trace, msg, processed, settings, mailbox, conns, instance, clock>>

----------------------------------------------------------------------------
(* Bounds of the model.                                                    *)

\* the store admits at most this many rows in the API specification
MaxRows == 2

\* at most this many messages are processed by a pipeline
MaxMsgs == 3

----------------------------------------------------------------------------
(* Text: strings are sequences of one-character strings.                   *)

Lower ==
    << "a", "b", "c", "d", "e", "f", "g", "h", "i", "j", "k", "l",
       "m", "n", "o", "p", "q", "r", "s", "t", "u", "v", "w", "x", "y", "z" >>
Upper ==
    << "A", "B", "C", "D", "E", "F", "G", "H", "I", "J", "K", "L",
       "M", "N", "O", "P", "Q", "R", "S", "T", "U", "V", "W", "X", "Y", "Z" >>

\* str.upper() on one character
upper_char(c) ==
    IF \E i \in 1..Len(Lower) : Lower[i] = c
    THEN Upper[CHOOSE i \in 1..Len(Lower) : Lower[i] = c]
    ELSE c

\* str.upper()
upper(s) == [i \in 1..Len(s) |-> upper_char(s[i])]

DigitChars == <<"0", "1", "2", "3", "4", "5", "6", "7", "8", "9">>

\* the code point of a character of an ISO date string
Code(c) ==
    IF c = "-" THEN 45
    ELSE 47 + (CHOOSE i \in 1..10 : DigitChars[i] = c)

\* SQLite's BINARY collation on TEXT: s sorts strictly before t
RECURSIVE TextLess(_, _)
TextLess(s, t) ==
    IF s = <<>> THEN t # <<>>
    ELSE IF t = <<>> THEN FALSE
    ELSE IF Code(Head(s)) # Code(Head(t)) THEN Code(Head(s)) < Code(Head(t))
    ELSE TextLess(Tail(s), Tail(t))

----------------------------------------------------------------------------
(* datetime.date                                                           *)

date(y, m, d) == [year |-> y, month |-> m, day |-> d]

IsLeap(y) == y % 4 = 0 /\ (y % 100 # 0 \/ y % 400 = 0)

DaysInMonth(y, m) ==
    IF m = 2 THEN (IF IsLeap(y) THEN 29 ELSE 28)
    ELSE IF m \in {4, 6, 9, 11} THEN 30 ELSE 31

RECURSIVE DaysBeforeMonth(_, _)
DaysBeforeMonth(y, m) ==
    IF m = 1 THEN 0 ELSE DaysBeforeMonth(y, m - 1) + DaysInMonth(y, m - 1)

DaysBeforeYear(y) ==
    (y - 1) * 365 + ((y - 1) \div 4) - ((y - 1) \div 100) + ((y - 1) \div 400)

\* date.toordinal(): 0001-01-01 is day 1
toordinal(d) == DaysBeforeYear(d.year) + DaysBeforeMonth(d.year, d.month) + d.day

\* date.weekday(): Monday is 0, Sunday is 6
weekday(d) == (toordinal(d) + 6) % 7

\* d - timedelta(days=1)
PrevDay(d) ==
    IF d.day > 1 THEN date(d.year, d.month, d.day - 1)
    ELSE IF d.month > 1
         THEN date(d.year, d.month - 1, DaysInMonth(d.year, d.month - 1))
         ELSE date(d.year - 1, 12, 31)

\* d - timedelta(days=n), n >= 0
RECURSIVE MinusDays(_, _)
MinusDays(d, n) == IF n = 0 THEN d ELSE MinusDays(PrevDay(d), n - 1)

\* the decimal digit of n at place p (1, 10, 100, 1000), as a character
Digit(n, p) == DigitChars[((n \div p) % 10) + 1]

\* date.isoformat(): "YYYY-MM-DD"
isoformat(d) ==
    << Digit(d.year, 1000), Digit(d.year, 100), Digit(d.year, 10), Digit(d.year, 1), "-",
       Digit(d.month, 10), Digit(d.month, 1), "-",
       Digit(d.day, 10), Digit(d.day, 1) >>

DigitVal(c) == Code(c) - 48

\* date.fromisoformat()
fromisoformat(s) ==
    date(DigitVal(s[1]) * 1000 + DigitVal(s[2]) * 100 + DigitVal(s[3]) * 10 + DigitVal(s[4]),
         DigitVal(s[6]) * 10 + DigitVal(s[7]),
         DigitVal(s[9]) * 10 + DigitVal(s[10]))

----------------------------------------------------------------------------
(* The inputs the model draws from.                                        *)

AAPL == <<"A", "A", "P", "L">>
aapl == <<"a", "a", "p", "l">>
MSFT == <<"M", "S", "F", "T">>

\* tickers as callers pass them, in any letter case
Tickers == {AAPL, aapl, MSFT}

Timeframes == {"daily", "weekly", "monthly"}

Dec23 == date(2024, 12, 23)    \* a Monday
Dec29 == date(2024, 12, 29)    \* the Sunday of the same week
Dec30 == date(2024, 12, 30)    \* the Monday of the following week
Jan01 == date(2025, 1, 1)      \* the Wednesday of that week, in the next year
Dec23NextYear == date(2025, 12, 23)    \* the same month of another year

Dates == {Dec23, Dec29, Dec30, Jan01, Dec23NextYear}

----------------------------------------------------------------------------
(* db.py: the deduplication store.                                         *)

Row(t, tf, iso) == [ticker |-> t, timeframe |-> tf, alert_date |-> iso]

\* _get_week_monday with the week starting on Sunday
get_week_monday_sunday_based(d) == MinusDays(d, (weekday(d) + 1) % 7)

\* _get_week_monday: d - timedelta(days=d.weekday())
get_week_monday(d) == MinusDays(d, weekday(d))

\* SELECT alert_date ... WHERE ticker = ? AND timeframe = ?
select_alert_dates(table, t, tf) ==
    {r.alert_date : r \in {q \in BagToSet(table) : q.ticker = t /\ q.timeframe = tf}}

\* ... ORDER BY alert_date ASC LIMIT 1: the oldest date
order_asc_limit_1(isos) == CHOOSE s \in isos : \A q \in isos : ~TextLess(q, s)

\* ... ORDER BY alert_date DESC LIMIT 1, on a non-empty selection
order_desc_limit_1(isos) == CHOOSE s \in isos : \A q \in isos : ~TextLess(s, q)

\* should_alert that compares the month alone
should_alert_month_only(table, ticker, timeframe, alert_date) ==
    IF timeframe = "daily" THEN TRUE
    ELSE
        LET isos == select_alert_dates(table, upper(ticker), timeframe) IN
        IF isos = {} THEN TRUE
        ELSE
            LET last_alert_date == fromisoformat(order_desc_limit_1(isos)) IN
            IF timeframe = "weekly"
            THEN get_week_monday(last_alert_date) # get_week_monday(alert_date)
            ELSE IF timeframe = "monthly"
            THEN last_alert_date.month # alert_date.month
            ELSE TRUE

\* should_alert that suppresses every daily alert
should_alert_daily_suppressed(table, ticker, timeframe, alert_date) ==
    IF timeframe = "daily" THEN FALSE
    ELSE
        LET isos == select_alert_dates(table, upper(ticker), timeframe) IN
        IF isos = {} THEN TRUE
        ELSE
            LET last_alert_date == fromisoformat(order_desc_limit_1(isos)) IN
            IF timeframe = "weekly"
            THEN get_week_monday(last_alert_date) # get_week_monday(alert_date)
            ELSE IF timeframe = "monthly"
            THEN <<last_alert_date.year, last_alert_date.month>>
                     # <<alert_date.year, alert_date.month>>
            ELSE TRUE

\* should_alert that treats every timeframe but daily and weekly as monthly
should_alert_unknown_as_monthly(table, ticker, timeframe, alert_date) ==
    IF timeframe = "daily" THEN TRUE
    ELSE
        LET isos == select_alert_dates(table, upper(ticker), timeframe) IN
        IF isos = {} THEN TRUE
        ELSE
            LET last_alert_date == fromisoformat(order_desc_limit_1(isos)) IN
            IF timeframe = "weekly"
            THEN get_week_monday(last_alert_date) # get_week_monday(alert_date)
            ELSE <<last_alert_date.year, last_alert_date.month>>
                     # <<alert_date.year, alert_date.month>>

\* should_alert: the value returned for the rows in table
should_alert(table, ticker, timeframe, alert_date) ==
    IF timeframe = "daily" THEN TRUE
    ELSE
        LET isos == select_alert_dates(table, upper(ticker), timeframe) IN
        IF isos = {} THEN TRUE
        ELSE
            LET last_alert_date == fromisoformat(order_desc_limit_1(isos)) IN
            IF timeframe = "weekly"
            THEN get_week_monday(last_alert_date) # get_week_monday(alert_date)
            ELSE IF timeframe = "monthly"
            THEN <<last_alert_date.year, last_alert_date.month>>
                     # <<alert_date.year, alert_date.month>>
            ELSE TRUE

\* the rows of the table without those in gone
delete_where(table, gone) ==
    LET kept == BagToSet(table) \ gone IN [r \in kept |-> table[r]]

\* INSERT OR REPLACE with PRIMARY KEY (ticker, timeframe): the row replaces
\* the row of its ticker and timeframe
insert_or_replace_latest_only(table, row) ==
    LET SameKey == {r \in BagToSet(table) :
                       r.ticker = row.ticker /\ r.timeframe = row.timeframe}
    IN delete_where(table, SameKey) (+) SetToBag({row})

\* INSERT OR REPLACE: the row replaces any row with its primary key
\* (ticker, timeframe, alert_date)
insert_or_replace(table, row) ==
    LET SameKey == {r \in BagToSet(table) :
                       /\ r.ticker = row.ticker /\ r.timeframe = row.timeframe
                       /\ r.alert_date = row.alert_date}
    IN delete_where(table, SameKey) (+) SetToBag({row})

\* record_alert that writes daily alerts too
record_alert_daily_too(table, ticker, timeframe, alert_date) ==
    insert_or_replace(table, Row(upper(ticker), timeframe, isoformat(alert_date)))

\* record_alert that keys the row on the ticker alone
record_alert_ticker_key(table, ticker, timeframe, alert_date) ==
    IF timeframe = "daily" THEN table
    ELSE LET SameTicker == {r \in BagToSet(table) : r.ticker = upper(ticker)}
         IN delete_where(table, SameTicker)
                (+) SetToBag({Row(upper(ticker), timeframe, isoformat(alert_date))})

\* record_alert: the rows of the table after the call
record_alert(table, ticker, timeframe, alert_date) ==
    IF timeframe = "daily" THEN table
    ELSE insert_or_replace(table, Row(upper(ticker), timeframe, isoformat(alert_date)))

----------------------------------------------------------------------------
(* config.py: the settings.                                                *)

\* Settings(): which webhooks and credentials are configured, and the three
\* hvc_*_enabled flags with their defaults
DefaultSettings ==
    [discord_webhook_url |-> TRUE, discord_webhook_urls |-> FALSE, mastodon |-> FALSE,
     hvc_daily_enabled |-> FALSE, hvc_weekly_enabled |-> TRUE, hvc_monthly_enabled |-> TRUE]

\* validate_discord_config
validate_discord_config(cfg) == cfg.discord_webhook_url \/ cfg.discord_webhook_urls

\* the configurations the model starts from
SettingsSet ==
    {cfg \in { DefaultSettings,
               [DefaultSettings EXCEPT !.mastodon = TRUE, !.hvc_daily_enabled = TRUE],
               [DefaultSettings EXCEPT !.discord_webhook_url = FALSE,
                                       !.discord_webhook_urls = TRUE,
                                       !.hvc_monthly_enabled = FALSE] } :
        validate_discord_config(cfg)}

----------------------------------------------------------------------------
(* The store's API called directly, as tests/test_db.py does.              *)

NoCall == [op |-> "none"]
NoMsg == [kind |-> "none"]

\* no mailbox is connected
NoMailbox == [pc |-> "none"]

\* one instance only, the one the other variables describe
NoInstance == <<>>

\* the clock is not read
NoClock == [now |-> "none"]

InitDb ==
    /\ store = EmptyBag
    /\ call = NoCall
    /\ sent = <<>>
    /\ trace = <<>>
    /\ msg = NoMsg
    /\ processed = 0
    /\ mailbox = NoMailbox
    /\ conns = 0 /\ instance = NoInstance /\ clock = NoClock
    /\ settings = DefaultSettings

\* a caller calls should_alert and sees its result
CallShouldAlert(t, tf, d) ==
    /\ call = NoCall
    /\ call' = [op |-> "should_alert", ticker |-> t, timeframe |-> tf,
                alert_date |-> d, before |-> store,
                result |-> should_alert(store, t, tf, d)]
    /\ UNCHANGED <<store, sent, trace, msg, processed, settings, mailbox, conns, instance, clock>>

\* a caller calls record_alert
CallRecordAlert(t, tf, d) ==
    /\ call = NoCall
    /\ BagCardinality(record_alert(store, t, tf, d)) <= MaxRows
    /\ store' = record_alert(store, t, tf, d)
    /\ call' = [op |-> "record_alert", ticker |-> t, timeframe |-> tf,
                alert_date |-> d, before |-> store, again |-> FALSE]
    /\ UNCHANGED <<sent, trace, msg, processed, settings, mailbox, conns, instance, clock>>

\* the caller calls record_alert once more with the arguments of the call it
\* has just made
RepeatRecordAlert ==
    /\ call.op = "record_alert"
    /\ ~call.again
    /\ store' = record_alert(store, call.ticker, call.timeframe, call.alert_date)
    /\ call' = [call EXCEPT !.before = store, !.again = TRUE]
    /\ UNCHANGED <<sent, trace, msg, processed, settings, mailbox, conns, instance, clock>>

\* the call is over
Return ==
    /\ call # NoCall
    /\ call' = NoCall
    /\ UNCHANGED <<store, sent, trace, msg, processed, settings, mailbox, conns, instance, clock>>

NextDb ==
    \/ \E t \in Tickers, tf \in Timeframes, d \in Dates : CallShouldAlert(t, tf, d)
    \/ \E t \in Tickers, tf \in Timeframes, d \in Dates : CallRecordAlert(t, tf, d)
    \/ RepeatRecordAlert
    \/ Return

SpecDb == InitDb /\ [][NextDb]_vars

----------------------------------------------------------------------------
(* What the claims speak of, stated on the calendar and not on the code.   *)

\* 2024-12-02 is a Monday (tests/test_db.py:30)
KnownMonday == date(2024, 12, 2)

\* the number of the Monday-based week of d, counted from KnownMonday's week
WeekNo(d) == (toordinal(d) - toordinal(KnownMonday)) \div 7

SameWeek(d1, d2) == WeekNo(d1) = WeekNo(d2)

SameMonth(d1, d2) == d1.year = d2.year /\ d1.month = d2.month

\* the dates of the rows recorded for an uppercase ticker and a timeframe
RecordedDates(table, t, tf) ==
    {fromisoformat(r.alert_date) :
        r \in {q \in BagToSet(table) : q.ticker = t /\ q.timeframe = tf}}

\* the table that holds the one row (t, tf, d)
OnlyRow(t, tf, d) == SetToBag({Row(t, tf, isoformat(d))})

Deduplicated == {"weekly", "monthly"}

----------------------------------------------------------------------------
(* C1 .. C9: the store.                                                    *)

\* C1: after record_alert(t, weekly, d1) on an otherwise empty store,
\* should_alert(t, weekly, d2) is false when d1 and d2 lie in the same
\* Monday-based week and true when d2 lies in the following week.
C1_WeeklyPeriodBoundary ==
    (call.op = "should_alert" /\ call.timeframe = "weekly") =>
        \A d1 \in Dates :
            call.before = OnlyRow(upper(call.ticker), "weekly", d1) =>
                /\ SameWeek(d1, call.alert_date) => call.result = FALSE
                /\ WeekNo(call.alert_date) = WeekNo(d1) + 1 => call.result = TRUE

\* recorded on a Monday, the Sunday of that week is suppressed
C1_Witness ==
    /\ call.op = "should_alert" /\ call.timeframe = "weekly"
    /\ call.ticker = AAPL /\ call.alert_date = Dec29
    /\ call.before = OnlyRow(AAPL, "weekly", Dec23)
    /\ call.result = FALSE

\* C2: after record_alert(t, monthly, d1) on an otherwise empty store,
\* should_alert(t, monthly, d2) is true if and only if (year, month) of d2
\* differs from (year, month) of d1, also across a year rollover and for the
\* same month of another year.
C2_MonthlyPeriodBoundary ==
    (call.op = "should_alert" /\ call.timeframe = "monthly") =>
        \A d1 \in Dates :
            call.before = OnlyRow(upper(call.ticker), "monthly", d1) =>
                call.result = ~SameMonth(d1, call.alert_date)

\* recorded in December 2024, December 2025 is allowed
C2_Witness ==
    /\ call.op = "should_alert" /\ call.timeframe = "monthly"
    /\ call.ticker = AAPL /\ call.alert_date = Dec23NextYear
    /\ call.before = OnlyRow(AAPL, "monthly", Dec23)
    /\ call.result = TRUE

\* C4: should_alert(ticker, weekly, d) is true exactly when no recorded weekly
\* row of that ticker lies in the Monday-based week of d, and
\* should_alert(ticker, monthly, d) is true exactly when no recorded monthly
\* row of that ticker lies in the (year, month) of d.
C4_LatestRowDecidesAsEveryRow ==
    call.op = "should_alert" =>
        /\ call.timeframe = "weekly" =>
               call.result = ~(\E d \in RecordedDates(call.before, upper(call.ticker), "weekly") :
                                   SameWeek(d, call.alert_date))
        /\ call.timeframe = "monthly" =>
               call.result = ~(\E d \in RecordedDates(call.before, upper(call.ticker), "monthly") :
                                   SameMonth(d, call.alert_date))

\* C5: should_alert(t, daily, d) returns true for every ticker, date and store
\* content, whatever record_alert calls preceded it.
C5_DailyNeverSuppresses ==
    (call.op = "should_alert" /\ call.timeframe = "daily") => call.result = TRUE

\* a daily check on a store that holds rows of the same ticker
C5_Witness ==
    /\ call.op = "should_alert" /\ call.timeframe = "daily"
    /\ \E r \in BagToSet(store) : r.ticker = upper(call.ticker)
    /\ call.result = TRUE

\* C6: record_alert with timeframe daily leaves the store unchanged, and the
\* store never contains a row whose timeframe is daily.
C6_DailyRecordWritesNothing ==
    /\ (call.op = "record_alert" /\ call.timeframe = "daily") => store = call.before
    /\ \A r \in BagToSet(store) : r.timeframe # "daily"

\* a daily record_alert on a store that holds rows
C6_Witness ==
    /\ call.op = "record_alert" /\ call.timeframe = "daily"
    /\ store # EmptyBag

\* C7: calling record_alert(t, weekly or monthly, d) twice with the same
\* arguments leaves the store rows, and every later should_alert result, as
\* after one call; should_alert(t, weekly, d) is false after either call.
C7_RecordTwiceAsOnce ==
    (call.op = "record_alert" /\ call.timeframe \in Deduplicated) =>
        /\ call.again =>
               /\ store = call.before
               /\ \A t \in Tickers, tf \in Timeframes, d \in Dates :
                      should_alert(store, t, tf, d) = should_alert(call.before, t, tf, d)
        /\ call.timeframe = "weekly" =>
               should_alert(store, call.ticker, "weekly", call.alert_date) = FALSE

\* C8: record_alert(t1, tf1, d) never changes the result of
\* should_alert(t2, tf2, d') when t2 differs from t1 (ignoring case) or tf2
\* differs from tf1.
C8_KeyIndependence ==
    call.op = "record_alert" =>
        \A t2 \in Tickers, tf2 \in Timeframes, d2 \in Dates :
            (upper(t2) # upper(call.ticker) \/ tf2 # call.timeframe) =>
                should_alert(store, t2, tf2, d2) = should_alert(call.before, t2, tf2, d2)

\* a row is written beside a row of the same ticker in the other timeframe
C8_Witness ==
    /\ call.op = "record_alert" /\ store # call.before
    /\ \E r \in BagToSet(call.before) :
           r.ticker = upper(call.ticker) /\ r.timeframe # call.timeframe

\* C9: record_alert with any casing of a ticker makes should_alert with any
\* other casing of the same ticker return false for the same period, and
\* every stored row's ticker is uppercase.
C9_CaseNormalization ==
    /\ \A r \in BagToSet(store) : r.ticker = upper(r.ticker)
    /\ (call.op = "record_alert" /\ call.timeframe \in Deduplicated) =>
           \A t2 \in Tickers, d2 \in Dates :
               ( /\ upper(t2) = upper(call.ticker)
                 /\ (call.timeframe = "weekly" => SameWeek(d2, call.alert_date))
                 /\ (call.timeframe = "monthly" => SameMonth(d2, call.alert_date)) )
               => should_alert(store, t2, call.timeframe, d2) = FALSE

----------------------------------------------------------------------------
(* utils.py: the extractors.                                               *)

\* str.lower() on one character
lower_char(c) ==
    IF \E i \in 1..Len(Upper) : Upper[i] = c
    THEN Lower[CHOOSE i \in 1..Len(Upper) : Upper[i] = c]
    ELSE c

\* str.lower()
lower(s) == [i \in 1..Len(s) |-> lower_char(s[i])]

\* regular expression \s
IsSpace(c) == c = " "

\* regular expression \w
IsWord(c) ==
    \/ \E i \in 1..Len(Lower) : Lower[i] = c \/ Upper[i] = c
    \/ \E i \in 1..Len(DigitChars) : DigitChars[i] = c
    \/ c = "_"

\* regular expression [\w/,\s]
InList(c) == IsWord(c) \/ c = "/" \/ c = "," \/ IsSpace(c)

\* the lowercase literal lit matches s at position i, letter case ignored
LitAt(s, i, lit) ==
    /\ i >= 1 /\ i + Len(lit) - 1 <= Len(s)
    /\ \A k \in 1..Len(lit) : lower_char(s[i + k - 1]) = lit[k]

\* every character of s from i to j is white space
SpacesAt(s, i, j) == \A k \in i..j : IsSpace(s[k])

\* \s+(?:were|was)\s+added matches s at position p
TailAt(s, p) ==
    \E a \in p..Len(s), word \in {<<"w", "e", "r", "e">>, <<"w", "a", "s">>} :
        /\ SpacesAt(s, p, a)
        /\ LitAt(s, a + 1, word)
        /\ \E b \in (a + 1 + Len(word))..Len(s) :
               /\ SpacesAt(s, a + 1 + Len(word), b)
               /\ LitAt(s, b + 1, <<"a", "d", "d", "e", "d">>)

\* ([\w/,\s]+)\s+(?:were|was)\s+added matches s with the group at g..e
GroupAt(s, g, e) ==
    /\ g <= e /\ e <= Len(s)
    /\ \A k \in g..e : InList(s[k])
    /\ TailAt(s, e + 1)

\* symbols?:? matches s at position i and ends before position q: the colon
\* may be missing after "symbols"
HeadAt_optional_colon(s, i, q) ==
    /\ LitAt(s, i, <<"s", "y", "m", "b", "o", "l">>)
    /\ \/ q = i + 8 /\ LitAt(s, i + 6, <<"s", ":">>)
       \/ q = i + 7 /\ (LitAt(s, i + 6, <<":">>) \/ LitAt(s, i + 6, <<"s">>))

\* symbols?: matches s at position i and ends before position q
HeadAt(s, i, q) ==
    /\ LitAt(s, i, <<"s", "y", "m", "b", "o", "l">>)
    /\ \/ q = i + 8 /\ LitAt(s, i + 6, <<"s", ":">>)
       \/ q = i + 7 /\ LitAt(s, i + 6, <<":">>)

\* the pattern matches s from position i, \s* ending before g, the group at g..e
MatchAt(s, i, g, e) ==
    \E q \in (i + 7)..(i + 8) :
        /\ q <= g /\ SpacesAt(s, q, g - 1)
        /\ HeadAt(s, i, q)
        /\ GroupAt(s, g, e)

\* re.search: group 1 of the leftmost match, \s* and the group greedy; <<>> is
\* returned with found = FALSE when nothing matches
search_group(s) ==
    LET Starts == {i \in 1..Len(s) :
                      /\ LitAt(s, i, <<"s", "y", "m", "b", "o", "l">>)
                      /\ \E g \in i..Len(s), e \in i..Len(s) : MatchAt(s, i, g, e)}
    IN IF Starts = {} THEN [found |-> FALSE, group |-> <<>>]
       ELSE
           LET i == CHOOSE x \in Starts : \A y \in Starts : x <= y
               Gs == {g \in i..Len(s) : \E e \in i..Len(s) : MatchAt(s, i, g, e)}
               g == CHOOSE x \in Gs : \A y \in Gs : y <= x
               Es == {e \in g..Len(s) : MatchAt(s, i, g, e)}
               e == CHOOSE x \in Es : \A y \in Es : y <= x
           IN [found |-> TRUE, group |-> SubSeq(s, g, e)]

\* str.split(",")
RECURSIVE split_comma(_)
split_comma(s) ==
    IF \A k \in 1..Len(s) : s[k] # "," THEN <<s>>
    ELSE LET i == CHOOSE x \in 1..Len(s) : s[x] = "," /\ \A y \in 1..(x - 1) : s[y] # ","
         IN <<SubSeq(s, 1, i - 1)>> \o split_comma(SubSeq(s, i + 1, Len(s)))

\* str.lstrip(): the trailing whitespace is kept
RECURSIVE lstrip(_)
lstrip(s) ==
    IF s # <<>> /\ IsSpace(Head(s)) THEN lstrip(Tail(s))
    ELSE s

\* str.strip()
RECURSIVE strip(_)
strip(s) ==
    IF s # <<>> /\ IsSpace(Head(s)) THEN strip(Tail(s))
    ELSE IF s # <<>> /\ IsSpace(s[Len(s)]) THEN strip(SubSeq(s, 1, Len(s) - 1))
    ELSE s

\* [x.strip() for x in parts if "/" not in x.strip()]: the letter case is kept
RECURSIVE strip_no_slash(_)
strip_no_slash(parts) ==
    IF parts = <<>> THEN <<>>
    ELSE LET x == strip(Head(parts)) IN
         (IF \E k \in 1..Len(x) : x[k] = "/" THEN <<>> ELSE <<x>>)
             \o strip_no_slash(Tail(parts))

\* [x.strip().upper() for x in parts if "/" not in x.strip()]
RECURSIVE strip_upper_no_slash(_)
strip_upper_no_slash(parts) ==
    IF parts = <<>> THEN <<>>
    ELSE LET x == strip(Head(parts)) IN
         (IF \E k \in 1..Len(x) : x[k] = "/" THEN <<>> ELSE <<upper(x)>>)
             \o strip_upper_no_slash(Tail(parts))

\* extract_tickers
extract_tickers(subject) ==
    LET match == search_group(subject) IN
    IF match.found THEN strip_upper_no_slash(split_comma(match.group)) ELSE <<>>

\* lit in s
Contains(s, lit) ==
    \E i \in 1..Len(s) :
        i + Len(lit) - 1 <= Len(s) /\ \A k \in 1..Len(lit) : s[i + k - 1] = lit[k]

\* extract_timeframe with "monthly" tested before "weekly"
extract_timeframe_monthly_first(subject) ==
    LET subject_lower == lower(subject) IN
    IF Contains(subject_lower, <<"m", "o", "n", "t", "h", "l", "y">>) THEN "monthly"
    ELSE IF Contains(subject_lower, <<"w", "e", "e", "k", "l", "y">>) THEN "weekly"
    ELSE "daily"

\* extract_timeframe
extract_timeframe(subject) ==
    LET subject_lower == lower(subject) IN
    IF Contains(subject_lower, <<"w", "e", "e", "k", "l", "y">>) THEN "weekly"
    ELSE IF Contains(subject_lower, <<"m", "o", "n", "t", "h", "l", "y">>) THEN "monthly"
    ELSE "daily"

----------------------------------------------------------------------------
(* The subjects of the messages the model draws from.                      *)

\* msg.subject of a message without a Subject header
None == <<"None">>

\* "symbols: AAPL, MSFT were added to HVC Weekly"
WeeklyTwo ==
    << "s", "y", "m", "b", "o", "l", "s", ":", " ", "A", "A", "P", "L", ",",
       " ", "M", "S", "F", "T", " ", "w", "e", "r", "e", " ", "a", "d", "d",
       "e", "d", " ", "t", "o", " ", "H", "V", "C", " ", "W", "e", "e", "k",
       "l", "y" >>

\* "symbol: aapl was added to HVC Monthly"
MonthlyOne ==
    << "s", "y", "m", "b", "o", "l", ":", " ", "a", "a", "p", "l", " ", "w",
       "a", "s", " ", "a", "d", "d", "e", "d", " ", "t", "o", " ", "H", "V",
       "C", " ", "M", "o", "n", "t", "h", "l", "y" >>

\* "symbols: AAPL were added to HVC Weekly"
WeeklyOne ==
    << "s", "y", "m", "b", "o", "l", "s", ":", " ", "A", "A", "P", "L", " ",
       "w", "e", "r", "e", " ", "a", "d", "d", "e", "d", " ", "t", "o", " ",
       "H", "V", "C", " ", "W", "e", "e", "k", "l", "y" >>

\* "symbols: /ZQU25, MSFT were added to HVC"
DailyFutures ==
    << "s", "y", "m", "b", "o", "l", "s", ":", " ", "/", "Z", "Q", "U", "2",
       "5", ",", " ", "M", "S", "F", "T", " ", "w", "e", "r", "e", " ", "a",
       "d", "d", "e", "d", " ", "t", "o", " ", "H", "V", "C" >>

\* "AAPL earnings"
NoList ==
    << "A", "A", "P", "L", " ", "e", "a", "r", "n", "i", "n", "g", "s" >>

Subjects == {WeeklyTwo, MonthlyOne, WeeklyOne, DailyFutures, NoList}

\* the extractors' results on the subjects, computed once
TickersOf == [s \in Subjects |-> extract_tickers(s)]
TimeframeOf == [s \in Subjects |-> extract_timeframe(s)]

----------------------------------------------------------------------------
(* datetime.datetime and the trading calendar.                             *)

\* a datetime: a date, the second and microsecond of its day, and tzinfo:
\* <<>> for a naive datetime, <<h>> for an aware one at UTC offset h hours
Naive == <<>>
UTC == <<0>>
datetime(d, h, mi, sec, us, tz) ==
    [date |-> d, second |-> (h * 60 + mi) * 60 + sec, microsecond |-> us, tzinfo |-> tz]

SecondsPerDay == 24 * 60 * 60

\* d + timedelta(days=1)
NextDay(d) ==
    IF d.day < DaysInMonth(d.year, d.month) THEN date(d.year, d.month, d.day + 1)
    ELSE IF d.month < 12 THEN date(d.year, d.month + 1, 1)
    ELSE date(d.year + 1, 1, 1)

\* t + timedelta(seconds=n), for any integer n within a few days
RECURSIVE plus_seconds(_, _)
plus_seconds(t, n) ==
    IF t.second + n < 0
    THEN plus_seconds([t EXCEPT !.date = PrevDay(t.date)], n + SecondsPerDay)
    ELSE IF t.second + n >= SecondsPerDay
    THEN plus_seconds([t EXCEPT !.date = NextDay(t.date)], n - SecondsPerDay)
    ELSE [t EXCEPT !.second = t.second + n]

\* t - timedelta(0): the instant itself
minus_no_microsecond(t) == t

\* t - timedelta(microseconds=1)
minus_microsecond(t) ==
    IF t.microsecond > 0 THEN [t EXCEPT !.microsecond = t.microsecond - 1]
    ELSE [plus_seconds(t, -1) EXCEPT !.microsecond = 999999]

\* t + timedelta(microseconds=1)
plus_microsecond(t) ==
    IF t.microsecond < 999999 THEN [t EXCEPT !.microsecond = t.microsecond + 1]
    ELSE [plus_seconds(t, 1) EXCEPT !.microsecond = 0]

\* a <= b for two datetimes of one time zone
at_or_before(a, b) ==
    LET x == toordinal(a.date)
        y == toordinal(b.date)
    IN \/ x < y
       \/ x = y /\ a.second < b.second
       \/ x = y /\ a.second = b.second /\ a.microsecond <= b.microsecond

\* the UTC offset of America/New_York in hours, outside daylight saving time
\* (every date of the model lies in December or January)
NewYork == <<0 - 5>>

\* _normalize_to_nyc_timezone
normalize_to_nyc_timezone(check_time) ==
    IF check_time.tzinfo = Naive
    THEN [check_time EXCEPT !.tzinfo = NewYork]
    ELSE [plus_seconds(check_time, (NewYork[1] - check_time.tzinfo[1]) * 3600)
              EXCEPT !.tzinfo = NewYork]

\* the NYSE calendar of pandas_market_calendars: the days without a session
Holidays == {date(2024, 12, 25), date(2025, 1, 1), date(2025, 12, 25)}

\* the days whose session closes at 13:00
EarlyCloses == {date(2024, 12, 24), date(2025, 12, 24)}

IsSession(d) == weekday(d) < 5 /\ d \notin Holidays

market_open(d) == datetime(d, 9, 30, 0, 0, NewYork)

market_close(d) ==
    IF d \in EarlyCloses THEN datetime(d, 13, 0, 0, 0, NewYork)
    ELSE datetime(d, 16, 0, 0, 0, NewYork)

\* nyse.schedule(start_date, end_date) for end_date = start_date + 1 day: the
\* sessions of the two days, in order
schedule(start_date) ==
    (IF IsSession(start_date) THEN <<start_date>> ELSE <<>>)
        \o (IF IsSession(NextDay(start_date)) THEN <<NextDay(start_date)>> ELSE <<>>)

\* _get_market_schedule: <<>> stands for None
get_market_schedule(target_date) ==
    LET sessions == schedule(target_date) IN
    IF sessions = <<>> THEN <<>>
    ELSE <<market_open(sessions[1]), market_close(sessions[1])>>

\* _is_time_in_range that leaves the start of the range out
is_time_in_range_open_start(target_time, start_time, end_time) ==
    /\ at_or_before(start_time, target_time) /\ start_time # target_time
    /\ at_or_before(target_time, end_time)

\* _is_time_in_range
is_time_in_range(target_time, start_time, end_time) ==
    at_or_before(start_time, target_time) /\ at_or_before(target_time, end_time)

\* is_market_hours_or_near
is_market_hours_or_near(check_time, hours) ==
    LET nyc_time == normalize_to_nyc_timezone(check_time)
        market_schedule == get_market_schedule(nyc_time.date)
    IN IF market_schedule = <<>> THEN FALSE
       ELSE
           LET open == market_schedule[1]
               close == market_schedule[2]
               pre_market_start == plus_seconds(open, 0 - hours * 3600)
               post_market_end == plus_seconds(close, hours * 3600)
           IN \/ is_time_in_range(nyc_time, open, close)
              \/ is_time_in_range(nyc_time, pre_market_start, minus_microsecond(open))
              \/ is_time_in_range(nyc_time, plus_microsecond(close), post_market_end)

\* the default of the parameter hours
DefaultHours == 1

\* The gate called directly, as tests/test_utils.py does: the timestamps and
\* the values of hours it is called with
CheckDates ==
    { Dec23, date(2024, 12, 24), date(2024, 12, 25), date(2024, 12, 28), Dec29, Dec30, Jan01 }

CheckTimes ==
    { datetime(d, c[1], c[2], c[3], c[4], tz) :
        d \in CheckDates,
        c \in { <<0, 0, 0, 0>>, <<8, 29, 59, 0>>, <<8, 29, 59, 999999>>, <<8, 30, 0, 0>>,
                <<9, 29, 59, 999999>>, <<9, 30, 0, 0>>, <<12, 0, 0, 0>>, <<13, 0, 0, 1>>,
                <<16, 0, 0, 0>>, <<16, 0, 0, 1>>, <<17, 0, 0, 0>>, <<17, 0, 0, 1>>,
                <<17, 0, 1, 0>>, <<23, 30, 0, 0>> },
        tz \in {Naive, UTC} }

HoursSet == {0, DefaultHours, 2, 10}

CallGate(t, h) ==
    /\ call = NoCall
    /\ call' = [op |-> "is_market_hours_or_near", check_time |-> t, hours |-> h,
                result |-> is_market_hours_or_near(t, h)]
    /\ UNCHANGED <<store, sent, trace, msg, processed, settings, mailbox, conns, instance, clock>>

NextGate == (\E t \in CheckTimes, h \in HoursSet : CallGate(t, h)) \/ Return

SpecGate == InitDb /\ [][NextGate]_vars

----------------------------------------------------------------------------
(* C16, C17: the market gate.                                              *)

\* the timestamp in exchange-local time
Local(t) == normalize_to_nyc_timezone(t)

\* C16: the gate returns false for every timestamp whose exchange-local date
\* has no trading session (weekend or holiday), for every value of hours,
\* even when the next or previous session lies within hours of it.
C16_NoSessionNoAlert ==
    (call.op = "is_market_hours_or_near" /\ ~IsSession(Local(call.check_time).date)) =>
        call.result = FALSE

\* C17: on a session date with open O and close C, a timestamp outside [O, C]
\* is accepted exactly when it lies in [O - hours, O) or (C, C + hours]; with
\* O = 09:30, C = 16:00 and hours = 1, 08:30 is accepted, 08:29:59 rejected,
\* 17:00 accepted and 17:00:01 rejected.
C17_NearWindowBoundaries ==
    (call.op = "is_market_hours_or_near" /\ IsSession(Local(call.check_time).date)) =>
        LET T == Local(call.check_time).second
            U == Local(call.check_time).microsecond
            O == market_open(Local(call.check_time).date).second
            C == market_close(Local(call.check_time).date).second
            H == call.hours * 3600
            AfterClose == T > C \/ (T = C /\ U > 0)
        IN (T < O \/ AfterClose) =>
               call.result = ( \/ (O - H <= T /\ T < O)
                               \/ (AfterClose /\ (T < C + H \/ (T = C + H /\ U = 0))) )

\* 08:30 on a session day, one hour before the open, is accepted
C17_Witness ==
    /\ call.op = "is_market_hours_or_near"
    /\ call.check_time = datetime(Dec23, 8, 30, 0, 0, Naive)
    /\ call.hours = 1
    /\ call.result = TRUE

----------------------------------------------------------------------------
(* notification.py                                                         *)

\* what the collaborators do during one message: whether the ticker data is
\* fetched, whether each platform accepts the post, and whether the trading
\* calendar answers
AllOk == [fetch_ok |-> TRUE, discord_ok |-> TRUE, mastodon_ok |-> TRUE, calendar_ok |-> TRUE]

Envs ==
    { AllOk,
      [AllOk EXCEPT !.fetch_ok = FALSE],
      [AllOk EXCEPT !.discord_ok = FALSE],
      [AllOk EXCEPT !.calendar_ok = FALSE] }

Post(platform, ticker) == [platform |-> platform, ticker |-> ticker]

\* notify_all_platforms: the posts that reach the platforms
notify_all_platforms(ticker, env, cfg) ==
    IF ~env.fetch_ok THEN <<>>
    ELSE (IF cfg.discord_webhook_url /\ env.discord_ok
          THEN <<Post("Discord", ticker)>> ELSE <<>>)
         \o (IF cfg.mastodon /\ env.mastodon_ok
             THEN <<Post("Mastodon", ticker)>> ELSE <<>>)

----------------------------------------------------------------------------
(* email_monitor.py: the pipeline.                                         *)

Event(op, args) == [op |-> op, args |-> args]

Message(subject, when) == [kind |-> "mail", subject |-> subject, date |-> when]

\* the messages the model draws from
Messages ==
    { Message(WeeklyTwo, datetime(Dec23, 10, 0, 0, 0, Naive)),
      Message(WeeklyOne, datetime(date(2024, 12, 27), 15, 0, 0, 0, Naive)),
      Message(WeeklyOne, datetime(Dec30, 14, 30, 0, 0, UTC)),
      Message(MonthlyOne, datetime(Dec30, 8, 30, 0, 0, Naive)),
      Message(MonthlyOne, datetime(date(2024, 11, 29), 12, 0, 0, 0, Naive)),
      Message(DailyFutures, datetime(Dec23, 17, 0, 0, 0, Naive)),
      Message(WeeklyOne, datetime(Dec29, 12, 0, 0, 0, Naive)),
      Message(WeeklyTwo, datetime(Dec23, 17, 0, 1, 0, Naive)),
      Message(NoList, datetime(Dec23, 10, 0, 0, 0, Naive)),
      Message(None, datetime(Dec23, 10, 0, 0, 0, Naive)),
      Message(<<>>, datetime(Dec23, 10, 0, 0, 0, Naive)) }

\* is_market_hours_or_near(msg.date) for the messages, computed once
NearMarketHours == [m \in Messages |-> is_market_hours_or_near(m.date, DefaultHours)]

\* for ticker in tickers: notify_all_platforms(ticker)
RECURSIVE notify_each(_, _, _)
notify_each(tickers, env, cfg) ==
    IF tickers = <<>> THEN [trace |-> <<>>, sent |-> <<>>, raised |-> FALSE]
    ELSE LET rest == notify_each(Tail(tickers), env, cfg) IN
         [trace |-> <<Event("notify_all_platforms", <<Head(tickers)>>)>> \o rest.trace,
          sent |-> notify_all_platforms(Head(tickers), env, cfg) \o rest.sent,
          raised |-> FALSE]

\* process_email_message that does not ask the market gate
process_email_message_no_gate(m, env, cfg) ==
    IF m.subject = None \/ m.subject = <<>>
    THEN [trace |-> <<Event("return", <<"no subject">>)>>, sent |-> <<>>, raised |-> FALSE]
    ELSE notify_each(TickersOf[m.subject], env, cfg)

\* process_email_message: the calls it makes, the posts that go out, and
\* whether it ends by an exception. The calendar lookup of the gate is not
\* guarded: when it fails, the exception leaves the function.
process_email_message(m, env, cfg) ==
    IF m.subject = None \/ m.subject = <<>>
    THEN [trace |-> <<Event("return", <<"no subject">>)>>, sent |-> <<>>, raised |-> FALSE]
    ELSE IF ~env.calendar_ok
    THEN [trace |-> <<Event("raise", <<"is_market_hours_or_near">>)>>, sent |-> <<>>,
          raised |-> TRUE]
    ELSE IF ~NearMarketHours[m]
    THEN [trace |-> <<Event("return", <<"outside market hours">>)>>, sent |-> <<>>,
          raised |-> FALSE]
    ELSE notify_each(TickersOf[m.subject], env, cfg)

----------------------------------------------------------------------------
(* The program: messages are processed one at a time.                      *)

Init ==
    /\ store = EmptyBag
    /\ call = NoCall
    /\ sent = <<>>
    /\ trace = <<>>
    /\ msg = NoMsg
    /\ processed = 0
    /\ mailbox = NoMailbox
    /\ conns = 0 /\ instance = NoInstance /\ clock = NoClock
    /\ settings \in SettingsSet

\* an exception left monitor_mailbox: the program has ended
Raised == [op |-> "raise"]

\* monitor_mailbox: process_email_message(msg) for the next unseen message;
\* nothing catches what process_email_message raises
ProcessEmailMessage(m, env) ==
    /\ call = NoCall
    /\ processed < MaxMsgs
    /\ LET done == process_email_message(m, env, settings) IN
           /\ trace' = done.trace
           /\ sent' = sent \o done.sent
           /\ call' = IF done.raised THEN Raised ELSE call
    /\ msg' = m
    /\ processed' = processed + 1
    /\ UNCHANGED <<store, settings, mailbox, conns, instance, clock>>

Next == \E m \in Messages, env \in Envs : ProcessEmailMessage(m, env)

Spec == Init /\ [][Next]_vars

\* The database file outlives the process: the tables it can hold when the
\* monitor starts, each written by record_alert
Stores ==
    { EmptyBag,
      record_alert(EmptyBag, MSFT, "weekly", Dec23),
      record_alert(EmptyBag, aapl, "weekly", Dec23),
      record_alert(record_alert(EmptyBag, MSFT, "weekly", Dec23), AAPL, "monthly", Dec30) }

InitStored ==
    /\ store \in Stores
    /\ call = NoCall
    /\ sent = <<>>
    /\ trace = <<>>
    /\ msg = NoMsg
    /\ processed = 0
    /\ mailbox = NoMailbox
    /\ conns = 0 /\ instance = NoInstance /\ clock = NoClock
    /\ settings \in SettingsSet

SpecStored == InitStored /\ [][Next]_vars

----------------------------------------------------------------------------
(* email_monitor.py: connect_imap, get_unread_messages, monitor_mailbox.   *)

\* the messages that arrive in the mailbox
MailboxMessages ==
    { Message(WeeklyTwo, datetime(Dec23, 10, 0, 0, 0, Naive)),
      Message(MonthlyOne, datetime(Dec30, 8, 30, 0, 0, Naive)),
      Message(WeeklyTwo, datetime(Dec23, 17, 0, 1, 0, Naive)) }

\* what the collaborators do while a fetched message is processed
MailboxEnvs == {AllOk, [AllOk EXCEPT !.calendar_ok = FALSE]}

\* MailBox(host).login(user, password, folder): the monitor is about to call
\* get_unread_messages. unseen: the messages of the folder without the Seen
\* flag, oldest first; batch: the messages of the running for loop that are
\* still to be processed; fetched, passed: the messages fetched (and marked
\* seen) and the messages passed to process_email_message since the last
\* wait; op: the last operation; last_wait: what the last wait reported
LoggedIn ==
    [pc |-> "get_unread_messages", unseen |-> <<>>, batch |-> <<>>, fetched |-> <<>>,
     passed |-> <<>>, op |-> "login", last_wait |-> "none", arrived |-> 0]

InitMailbox ==
    /\ store = EmptyBag
    /\ call = NoCall
    /\ sent = <<>>
    /\ trace = <<>>
    /\ msg = NoMsg
    /\ processed = 0
    /\ mailbox = LoggedIn
    /\ conns = 0 /\ instance = NoInstance /\ clock = NoClock
    /\ settings \in SettingsSet

\* the mail server delivers a message to the folder
Arrive(m) ==
    /\ mailbox.pc # "ended"
    /\ mailbox.arrived < MaxMsgs
    /\ mailbox' = [mailbox EXCEPT !.unseen = Append(@, m), !.arrived = @ + 1, !.op = "arrive"]
    /\ UNCHANGED <<store, call, sent, trace, msg, processed, settings, conns, instance, clock>>

\* get_unread_messages up to its for loop:
\* list(mailbox.fetch(AND(seen=False), mark_seen=True)) fetches every unseen
\* message and marks it seen before the first one is processed
GetUnreadMessages ==
    /\ mailbox.pc = "get_unread_messages"
    /\ mailbox' = [mailbox EXCEPT !.pc = IF mailbox.unseen = <<>> THEN "idle" ELSE "startup_for",
                                   !.batch = mailbox.unseen,
                                   !.fetched = mailbox.unseen,
                                   !.passed = <<>>,
                                   !.unseen = <<>>,
                                   !.op = "get_unread_messages"]
    /\ UNCHANGED <<store, call, sent, trace, msg, processed, settings, conns, instance, clock>>

\* one turn of a for loop: process_email_message(msg). In monitor_mailbox the
\* generator mailbox.fetch(A(seen=False), mark_seen=True) fetches, and marks
\* seen, one message per turn. Neither loop catches what
\* process_email_message raises: the exception ends the monitor, and the
\* messages the generator had not fetched stay unseen.
ProcessFetched(env) ==
    /\ mailbox.pc \in {"startup_for", "monitor_for"}
    /\ LET m == Head(mailbox.batch)
           rest == Tail(mailbox.batch)
           done == process_email_message(m, env, settings)
       IN /\ trace' = done.trace
          /\ sent' = sent \o done.sent
          /\ msg' = m
          /\ call' = IF done.raised THEN Raised ELSE call
          /\ mailbox' =
                 [mailbox EXCEPT
                     !.pc = IF done.raised THEN "ended"
                            ELSE IF rest = <<>> THEN "idle" ELSE @,
                     !.batch = IF done.raised THEN <<>> ELSE rest,
                     !.unseen = IF done.raised /\ mailbox.pc = "monitor_for"
                                THEN rest \o @ ELSE @,
                     !.fetched = IF mailbox.pc = "monitor_for" THEN Append(@, m) ELSE @,
                     !.passed = Append(@, m),
                     !.op = "process_email_message"]
    /\ processed' = processed + 1
    /\ UNCHANGED <<store, settings, conns, instance, clock>>

\* one turn of the while loop of monitor_mailbox up to its for loop:
\* idle.poll(timeout=10), and when it reports responses, the search of
\* mailbox.fetch for the unseen messages
WaitForActivity(responses) ==
    /\ mailbox.pc = "idle"
    /\ mailbox' = [mailbox EXCEPT
                      !.pc = IF responses /\ mailbox.unseen # <<>> THEN "monitor_for" ELSE "idle",
                      !.batch = IF responses THEN mailbox.unseen ELSE <<>>,
                      !.unseen = IF responses THEN <<>> ELSE @,
                      !.fetched = <<>>,
                      !.passed = <<>>,
                      !.op = "wait",
                      !.last_wait = IF responses THEN "activity" ELSE "quiet"]
    /\ UNCHANGED <<store, call, sent, trace, msg, processed, settings, conns, instance, clock>>

NextMailbox ==
    \/ \E m \in MailboxMessages : Arrive(m)
    \/ GetUnreadMessages
    \/ \E env \in MailboxEnvs : ProcessFetched(env)
    \/ \E responses \in BOOLEAN : WaitForActivity(responses)

SpecMailbox == InitMailbox /\ [][NextMailbox]_vars

----------------------------------------------------------------------------
(* The pipeline with deduplication, as tests/test_email_monitor.py expects *)
(* process_email_message to behave: the timeframe's enable flag is read,   *)
(* then each ticker is checked, notified and recorded.                     *)

\* is_timeframe_enabled
is_timeframe_enabled(timeframe, cfg) ==
    IF timeframe = "daily" THEN cfg.hvc_daily_enabled
    ELSE IF timeframe = "weekly" THEN cfg.hvc_weekly_enabled
    ELSE cfg.hvc_monthly_enabled

\* for ticker in tickers: should_alert(...) is asked, and record_alert(...) is
\* called whatever it answers
RECURSIVE admit_each_record_always(_, _, _, _, _, _)
admit_each_record_always(tickers, timeframe, alert_date, env, cfg, table) ==
    IF tickers = <<>> THEN [trace |-> <<>>, sent |-> <<>>, store |-> table]
    ELSE
        LET ticker == Head(tickers)
            admitted == should_alert(table, ticker, timeframe, alert_date)
            checked == Event("should_alert", <<ticker, timeframe, alert_date, admitted>>)
            recorded == Event("record_alert", <<ticker, timeframe, alert_date>>)
            rest == admit_each_record_always(Tail(tickers), timeframe, alert_date, env, cfg,
                        record_alert(table, ticker, timeframe, alert_date))
        IN IF admitted
           THEN [trace |-> <<checked, Event("notify_all_platforms", <<ticker, timeframe>>),
                             recorded>> \o rest.trace,
                 sent |-> notify_all_platforms(ticker, env, cfg) \o rest.sent,
                 store |-> rest.store]
           ELSE [trace |-> <<checked, recorded>> \o rest.trace, sent |-> rest.sent,
                 store |-> rest.store]

\* for ticker in tickers: if should_alert(...): notify_all_platforms(...);
\* record_alert(...)
RECURSIVE admit_each(_, _, _, _, _, _)
admit_each(tickers, timeframe, alert_date, env, cfg, table) ==
    IF tickers = <<>> THEN [trace |-> <<>>, sent |-> <<>>, store |-> table]
    ELSE
        LET ticker == Head(tickers)
            admitted == should_alert(table, ticker, timeframe, alert_date)
            checked == Event("should_alert", <<ticker, timeframe, alert_date, admitted>>)
            rest == admit_each(Tail(tickers), timeframe, alert_date, env, cfg,
                               IF admitted
                               THEN record_alert(table, ticker, timeframe, alert_date)
                               ELSE table)
        IN IF admitted
           THEN [trace |-> <<checked,
                             Event("notify_all_platforms", <<ticker, timeframe>>),
                             Event("record_alert", <<ticker, timeframe, alert_date>>)>>
                               \o rest.trace,
                 sent |-> notify_all_platforms(ticker, env, cfg) \o rest.sent,
                 store |-> rest.store]
           ELSE [trace |-> <<checked>> \o rest.trace, sent |-> rest.sent,
                 store |-> rest.store]

\* process_email_message with deduplication
process_email_message_dedup(m, env, cfg, table) ==
    IF m.subject = None \/ m.subject = <<>>
    THEN [trace |-> <<Event("return", <<"no subject">>)>>, sent |-> <<>>, store |-> table]
    ELSE IF ~NearMarketHours[m]
    THEN [trace |-> <<Event("return", <<"outside market hours">>)>>, sent |-> <<>>,
          store |-> table]
    ELSE IF ~is_timeframe_enabled(TimeframeOf[m.subject], cfg)
    THEN [trace |-> <<Event("return", <<"timeframe disabled">>)>>, sent |-> <<>>,
          store |-> table]
    ELSE admit_each(TickersOf[m.subject], TimeframeOf[m.subject], m.date.date,
                    env, cfg, table)

ProcessEmailMessageDedup(m, env) ==
    /\ processed < MaxMsgs
    /\ LET done == process_email_message_dedup(m, env, settings, store) IN
           /\ trace' = done.trace
           /\ sent' = sent \o done.sent
           /\ store' = done.store
    /\ msg' = m
    /\ processed' = processed + 1
    /\ UNCHANGED <<call, settings, mailbox, conns, instance, clock>>

NextDedup ==
    \E m \in Messages, env \in {e \in Envs : e.calendar_ok} : ProcessEmailMessageDedup(m, env)

SpecDedup == Init /\ [][NextDedup]_vars

----------------------------------------------------------------------------
(* C3, C10: the pipeline.                                                  *)

PassedFilters(m) ==
    /\ m # NoMsg
    /\ m.subject # None /\ m.subject # <<>>
    /\ NearMarketHours[m]

\* the positions in the trace of the calls of op whose first arguments are args
CallsOf(op, args) ==
    {i \in 1..Len(trace) :
        /\ trace[i].op = op
        /\ Len(trace[i].args) >= Len(args)
        /\ SubSeq(trace[i].args, 1, Len(args)) = args}

\* C10: for each ticker of a message for which should_alert returns true, the
\* pipeline dispatches the notification once and then calls
\* record_alert(ticker, timeframe, alert_date) once, the dispatch first.
C10_DispatchThenRecordOnce ==
    PassedFilters(msg) =>
        LET tf == TimeframeOf[msg.subject]
            d == msg.date.date
        IN \A t \in {TickersOf[msg.subject][i] : i \in 1..Len(TickersOf[msg.subject])} :
               should_alert(store, t, tf, d) =>
                   /\ Cardinality(CallsOf("notify_all_platforms", <<t>>)) = 1
                   /\ Cardinality(CallsOf("record_alert", <<t, tf, d>>)) = 1
                   /\ \A i \in CallsOf("notify_all_platforms", <<t>>),
                         j \in CallsOf("record_alert", <<t, tf, d>>) : i < j

----------------------------------------------------------------------------
(* C11 .. C15, C18 .. C20: the pipeline.                                   *)

\* the tickers of the subject of message m
TickerSet(m) == {TickersOf[m.subject][i] : i \in 1..Len(TickersOf[m.subject])}

\* the positions in a trace of the calls of op whose first arguments are args
CallsIn(tr, op, args) ==
    {i \in 1..Len(tr) :
        /\ tr[i].op = op
        /\ Len(tr[i].args) >= Len(args)
        /\ SubSeq(tr[i].args, 1, Len(args)) = args}

\* a step that processes one message
Processes == processed' = processed + 1

\* C11: for each ticker of a message for which should_alert returns false, no
\* notification is dispatched and record_alert is not called, whatever
\* happens to the other tickers of the message.
C11_SuppressedTickerIsSkipped ==
    [][(Processes /\ PassedFilters(msg') /\ call' = NoCall) =>
          \A t \in TickerSet(msg') :
              ~should_alert(store, t, TimeframeOf[msg'.subject], msg'.date.date) =>
                  /\ CallsIn(trace', "notify_all_platforms", <<t>>) = {}
                  /\ CallsIn(trace', "record_alert", <<t>>) = {}]_vars

\* C12: a message whose timeframe is disabled is discarded entirely:
\* should_alert is never called, no notification is dispatched, record_alert
\* is never called, and the store is neither read nor written.
C12_DisabledTimeframeIsDiscarded ==
    [][(/\ Processes /\ PassedFilters(msg') /\ call' = NoCall
        /\ ~is_timeframe_enabled(TimeframeOf[msg'.subject], settings)) =>
          /\ CallsIn(trace', "should_alert", <<>>) = {}
          /\ CallsIn(trace', "notify_all_platforms", <<>>) = {}
          /\ CallsIn(trace', "record_alert", <<>>) = {}
          /\ sent' = sent
          /\ store' = store]_vars

\* the subject is absent or empty, or the market gate answered no
Discarded(m) ==
    /\ m # NoMsg
    /\ \/ m.subject = None
       \/ m.subject = <<>>
       \/ ~is_market_hours_or_near(m.date, DefaultHours)

\* C13: a message whose subject is absent or empty, or whose timestamp the
\* market gate rejects, is discarded: no notification is dispatched for any
\* ticker and the store is not written.
C13_FilteredMessageIsDiscarded ==
    [][(Processes /\ Discarded(msg')) =>
          /\ CallsIn(trace', "notify_all_platforms", <<>>) = {}
          /\ CallsIn(trace', "record_alert", <<>>) = {}
          /\ sent' = sent
          /\ store' = store]_vars

\* a message that names two tickers arrives one second after the window,
\* after another message was notified, and returns at the gate
C13_Witness ==
    /\ msg = Message(WeeklyTwo, datetime(Dec23, 17, 0, 1, 0, Naive))
    /\ trace = <<Event("return", <<"outside market hours">>)>>
    /\ sent # <<>>
    /\ store # EmptyBag

\* C14: the alert_date passed to should_alert and to record_alert for a
\* message is the date portion of the message's own timestamp: every ticker
\* of a message is checked under that date and, when admitted, recorded
\* under it, also when the message is dated in a past month.
C14_AlertDateIsMessageDate ==
    [][(/\ Processes /\ PassedFilters(msg') /\ call' = NoCall
        /\ is_timeframe_enabled(TimeframeOf[msg'.subject], settings)) =>
          LET tf == TimeframeOf[msg'.subject]
              d == msg'.date.date
          IN \A t \in TickerSet(msg') :
                 /\ CallsIn(trace', "should_alert", <<t, tf, d>>) # {}
                 /\ CallsIn(trace', "should_alert", <<t>>)
                        = CallsIn(trace', "should_alert", <<t, tf, d>>)
                 /\ should_alert(store, t, tf, d) =>
                        CallsIn(trace', "record_alert", <<t, tf, d>>) # {}
                 /\ CallsIn(trace', "record_alert", <<t>>)
                        = CallsIn(trace', "record_alert", <<t, tf, d>>)]_vars

\* C15: a weekly message listing AAPL and MSFT, inside market hours with
\* weekly enabled, on a store without an AAPL/weekly row and with a
\* MSFT/weekly row in the same week, dispatches exactly one notification
\* (AAPL), writes exactly one new row (AAPL, weekly, message date) and leaves
\* the MSFT rows unchanged.
C15_EndToEndMixedAdmission ==
    [][(/\ Processes /\ PassedFilters(msg') /\ call' = NoCall
        /\ msg'.subject = WeeklyTwo
        /\ settings.hvc_weekly_enabled
        /\ RecordedDates(store, AAPL, "weekly") = {}
        /\ \E d \in RecordedDates(store, MSFT, "weekly") : SameWeek(d, msg'.date.date)) =>
          /\ Cardinality(CallsIn(trace', "notify_all_platforms", <<>>)) = 1
          /\ Cardinality(CallsIn(trace', "notify_all_platforms", <<AAPL>>)) = 1
          /\ store' = store (+) SetToBag({Row(AAPL, "weekly", isoformat(msg'.date.date))})]_vars

\* the posts in a sequence of posts
PostsIn(posts) == {posts[i] : i \in 1..Len(posts)}

\* C18: a dispatch failure is non-fatal: when one platform sender fails for a
\* ticker, notify_all_platforms still invokes the other configured senders
\* and returns without raising, and the pipeline still records the alert for
\* that ticker and goes on to the remaining tickers of the message.
C18_DispatchFailureIsNotFatal ==
    [][\A m \in Messages, env \in Envs :
          (/\ ProcessEmailMessage(m, env) /\ PassedFilters(m)
           /\ is_timeframe_enabled(TimeframeOf[m.subject], settings)
           /\ settings.discord_webhook_url
           /\ env.calendar_ok /\ env.fetch_ok /\ ~env.discord_ok) =>
              /\ call' = NoCall
              /\ \A t \in TickerSet(m) :
                     /\ CallsIn(trace', "notify_all_platforms", <<t>>) # {}
                     /\ settings.mastodon =>
                            Post("Mastodon", t) \in PostsIn(SubSeq(sent', Len(sent) + 1, Len(sent')))
                     /\ CallsIn(trace', "record_alert", <<t>>) # {}]_vars

\* C20: if the trading-calendar lookup fails while gating a message, the gate
\* propagates the error, no store row is written and no notification is
\* dispatched for that message, and only that message is aborted: the
\* monitor stays ready for the messages that arrive later.
C20_CalendarFailureAbortsOneMessage ==
    [][\A m \in Messages, env \in Envs :
          (/\ ProcessEmailMessage(m, env)
           /\ m.subject # None /\ m.subject # <<>>
           /\ ~env.calendar_ok) =>
              /\ trace' = <<Event("raise", <<"is_market_hours_or_near">>)>>
              /\ sent' = sent
              /\ store' = store
              /\ call' = NoCall]_vars

----------------------------------------------------------------------------
(* C21: the mailbox.                                                       *)

\* C21: unseen messages are fetched and processed once at startup before the
\* first wait; afterwards they are fetched and processed after every wait
\* that reports activity and never after a wait that reports none; every
\* fetched message is passed to process_email_message exactly once, in fetch
\* order, before the next wait begins.
C21_PollingOrder ==
    [][/\ mailbox'.op = "get_unread_messages" =>
             (mailbox.last_wait = "none" /\ mailbox'.fetched = mailbox.unseen)
       /\ mailbox'.op = "wait" =>
             /\ mailbox.op # "login"
             /\ mailbox.fetched = mailbox.passed
             /\ mailbox'.last_wait = "activity" => mailbox'.batch = mailbox.unseen
             /\ mailbox'.last_wait = "quiet" =>
                    (mailbox'.batch = <<>> /\ mailbox'.unseen = mailbox.unseen)
       /\ mailbox'.pc \in {"idle", "ended"} => mailbox'.fetched = mailbox'.passed
      ]_vars

----------------------------------------------------------------------------
(* Calls of the extractors on subjects built from their parts.             *)

\* the longest ticker list and the longest word list of a built subject
MaxTokens == 3

\* a comma as an element of the list: "AAPL, ,, MSFT" and "AAPL, , were added"
\* have two empty entries where it stands
Comma == [text |-> <<",">>, tickers |-> << <<>>, <<>> >>]

\* the entries of a ticker list as they are written in a subject, each with
\* the tickers it stands for: a ticker, a ticker in lower case followed by
\* a space, a futures symbol, a comma
Tokens ==
    { [text |-> AAPL, tickers |-> <<AAPL>>],
      [text |-> <<"m", "s", "f", "t", " ">>, tickers |-> <<MSFT>>],
      [text |-> <<"/", "Z", "Q", "U", "2", "5">>, tickers |-> <<>>],
      Comma }

\* "symbols " and "symbols: ": the word without and with the colon
NoColon == [text |-> <<"s", "y", "m", "b", "o", "l", "s", " ">>, matches |-> FALSE]
WithColon == [text |-> <<"s", "y", "m", "b", "o", "l", "s", ":", " ">>, matches |-> TRUE]

\* what precedes the list, and whether symbols?: matches it
Heads ==
    { [text |-> <<"A", "l", "e", "r", "t", ":", " ", "N", "e", "w", " ", "s", "y", "m", "b", "o", "l", "s", ":", " ">>, matches |-> TRUE],
      [text |-> <<"S", "Y", "M", "B", "O", "L", ":", " ">>, matches |-> TRUE],
      [text |-> <<"t", "i", "c", "k", "e", "r", "s", ":", " ">>, matches |-> FALSE],
      NoColon }

\* what follows the list, and whether \s+(?:were|was)\s+added matches it
Tails ==
    { [text |-> <<" ", "w", "e", "r", "e", " ", "a", "d", "d", "e", "d", " ", "t", "o", " ", "H", "V", "C", ".">>, matches |-> TRUE],
      [text |-> <<" ", "W", "A", "S", " ", "A", "D", "D", "E", "D">>, matches |-> TRUE],
      [text |-> <<" ", "w", "i", "l", "l", " ", "b", "e", " ", "a", "d", "d", "e", "d">>, matches |-> FALSE] }

\* the words of a subject, each with the keyword it contains
Words ==
    { [text |-> <<"W", "e", "e", "k", "l", "y">>, keyword |-> "weekly"],
      [text |-> <<"M", "O", "N", "T", "H", "L", "Y">>, keyword |-> "monthly"],
      [text |-> <<"w", "e", "e", "k", "l", "y", ".">>, keyword |-> "weekly"],
      [text |-> <<"H", "V", "C">>, keyword |-> "none"] }

\* the sequences of 1 to MaxTokens elements of S
Lists(S) == UNION {[1..n -> S] : n \in 1..MaxTokens}

\* sep.join(the texts of parts)
RECURSIVE join(_, _)
join(sep, parts) ==
    IF parts = <<>> THEN <<>>
    ELSE IF Len(parts) = 1 THEN parts[1].text
    ELSE parts[1].text \o sep \o join(sep, Tail(parts))

\* extract_tickers(head + ", ".join(tokens) + tail)
CallExtractTickers(head, tokens, tail) ==
    /\ call = NoCall
    /\ LET subject == head.text \o join(<<",", " ">>, tokens) \o tail.text
       IN call' = [op |-> "extract_tickers", subject |-> subject, head |-> head,
                   tokens |-> tokens, tail |-> tail,
                   result |-> extract_tickers(subject)]
    /\ UNCHANGED <<store, sent, trace, msg, processed, settings, mailbox, conns, instance, clock>>

\* extract_timeframe(" ".join(words))
CallExtractTimeframe(words) ==
    /\ call = NoCall
    /\ LET subject == join(<<" ">>, words)
       IN call' = [op |-> "extract_timeframe", subject |-> subject, words |-> words,
                   result |-> extract_timeframe(subject)]
    /\ UNCHANGED <<store, sent, trace, msg, processed, settings, mailbox, conns, instance, clock>>

NextExtract ==
    \/ \E head \in Heads, tokens \in Lists(Tokens), tail \in Tails :
           CallExtractTickers(head, tokens, tail)
    \/ \E words \in Lists(Words) : CallExtractTimeframe(words)
    \/ Return

SpecExtract == InitDb /\ [][NextExtract]_vars

----------------------------------------------------------------------------
(* C22, C23: the extractors.                                               *)

\* the tickers the tokens stand for, in order
RECURSIVE Listed(_)
Listed(tokens) ==
    IF tokens = <<>> THEN <<>> ELSE Head(tokens).tickers \o Listed(Tail(tokens))

\* C22: extract_tickers returns the comma-separated tokens of the matched
\* list, trimmed and uppercased, in order, with the tokens containing "/"
\* dropped and repeats kept; a subject that does not match the pattern yields
\* the empty list, not an error.
C22_TickerList ==
    call.op = "extract_tickers" =>
        call.result = IF call.head.matches /\ call.tail.matches
                      THEN Listed(call.tokens) ELSE <<>>

\* a list with a repeated lower-case ticker and a futures symbol was extracted
C22_Witness ==
    /\ call.op = "extract_tickers"
    /\ call.result = <<MSFT, MSFT>>
    /\ \E i \in 1..Len(call.tokens) : call.tokens[i].tickers = <<>>

\* C23: extract_timeframe is defined for every subject: weekly if the subject
\* contains "weekly" in any letter case, otherwise monthly if it contains
\* "monthly", otherwise daily; a subject with both keywords is weekly,
\* whatever their order.
C23_TimeframeOfSubject ==
    call.op = "extract_timeframe" =>
        LET Has(k) == \E i \in 1..Len(call.words) : call.words[i].keyword = k
        IN call.result = IF Has("weekly") THEN "weekly"
                         ELSE IF Has("monthly") THEN "monthly"
                         ELSE "daily"

\* a subject with "monthly" before "weekly" was classified
C23_Witness ==
    /\ call.op = "extract_timeframe"
    /\ Len(call.words) = 2
    /\ call.words[1].keyword = "monthly"
    /\ call.words[2].keyword = "weekly"
    /\ call.result = "weekly"

----------------------------------------------------------------------------
(* C24: the timeframe flags.                                               *)

\* C24: is_timeframe_enabled(timeframe) returns exactly the flag of that
\* timeframe; with the default configuration daily is disabled and weekly and
\* monthly are enabled, so that a daily message produces no notification.
C24_DefaultDailyIsSilent ==
    [][(Processes /\ PassedFilters(msg') /\ settings = DefaultSettings) =>
          /\ ~is_timeframe_enabled("daily", settings)
          /\ is_timeframe_enabled("weekly", settings)
          /\ is_timeframe_enabled("monthly", settings)
          /\ TimeframeOf[msg'.subject] = "daily" =>
                 (CallsIn(trace', "notify_all_platforms", <<>>) = {} /\ sent' = sent)]_vars

----------------------------------------------------------------------------
(* Two instances of the program that share one store file. Each runs, for  *)
(* a ticker of a message, should_alert, the dispatch, then record_alert;   *)
(* the steps of the two interleave.                                        *)

Instances == {1, 2}

\* the alerts the instances receive: AAPL weekly, dated in one week or the next
RaceDates == {Dec23, date(2024, 12, 27), Dec30}

\* the instance is between two messages
Idle == [pc |-> "idle"]

InitRace ==
    /\ store = EmptyBag
    /\ call = NoCall
    /\ sent = <<>>
    /\ trace = <<>>
    /\ msg = NoMsg
    /\ processed = 0
    /\ mailbox = NoMailbox
    /\ conns = 0
    /\ settings = DefaultSettings
    /\ instance = [i \in Instances |-> Idle]
    /\ clock = NoClock

\* instance i calls should_alert for the ticker of a weekly message dated d
ShouldAlert(i, d) ==
    /\ instance[i] = Idle
    /\ processed < MaxMsgs
    /\ processed' = processed + 1
    /\ LET admitted == should_alert(store, AAPL, "weekly", d)
       IN /\ trace' = Append(trace, [op |-> "should_alert", by |-> i, alert_date |-> d,
                                     result |-> admitted])
          /\ instance' = [instance EXCEPT ![i] =
                             IF admitted THEN [pc |-> "notify", alert_date |-> d] ELSE Idle]
    /\ UNCHANGED <<store, call, sent, msg, settings, mailbox, conns, clock>>

\* instance i dispatches the notification it was allowed
Notify(i) ==
    /\ instance[i].pc = "notify"
    /\ sent' = Append(sent, [by |-> i, ticker |-> AAPL, timeframe |-> "weekly",
                             alert_date |-> instance[i].alert_date])
    /\ instance' = [instance EXCEPT ![i].pc = "record_alert"]
    /\ UNCHANGED <<store, call, trace, msg, processed, settings, mailbox, conns, clock>>

\* instance i calls record_alert for the notification it dispatched
RecordAlert(i) ==
    /\ instance[i].pc = "record_alert"
    /\ store' = record_alert(store, AAPL, "weekly", instance[i].alert_date)
    /\ trace' = Append(trace, [op |-> "record_alert", by |-> i,
                               alert_date |-> instance[i].alert_date, result |-> TRUE])
    /\ instance' = [instance EXCEPT ![i] = Idle]
    /\ UNCHANGED <<call, sent, msg, processed, settings, mailbox, conns, clock>>

NextRace ==
    \E i \in Instances :
        \/ \E d \in RaceDates : ShouldAlert(i, d)
        \/ Notify(i)
        \/ RecordAlert(i)

SpecRace == InitRace /\ [][NextRace]_vars

----------------------------------------------------------------------------
(* C25: the check-then-record race.                                        *)

----------------------------------------------------------------------------
(* C26, C27: the rows of the store over time.                              *)

\* d1 and d2 lie in the same period of the timeframe
SamePeriod(tf, d1, d2) == IF tf = "weekly" THEN SameWeek(d1, d2) ELSE SameMonth(d1, d2)

\* the latest of a non-empty set of dates
Latest(ds) == CHOOSE d \in ds : \A e \in ds : toordinal(e) <= toordinal(d)

\* record_alert has just written a date older than the latest date that was
\* recorded for its ticker and timeframe
RecordedOutOfOrder ==
    /\ call.op = "record_alert" /\ call.timeframe \in Deduplicated
    /\ \E dnew \in RecordedDates(call.before, upper(call.ticker), call.timeframe) :
           toordinal(call.alert_date) < toordinal(dnew)

C27_RowsOnlyGrow ==
    [][\A r \in BagToSet(store) : r \in BagToSet(store')]_vars

\* a row was written to a store that held another row of that ticker and
\* timeframe
C27_Witness ==
    /\ call.op = "record_alert"
    /\ \E r \in BagToSet(call.before) :
           /\ r.ticker = upper(call.ticker) /\ r.timeframe = call.timeframe
           /\ r.alert_date # isoformat(call.alert_date)
    /\ BagCardinality(store) = 2

----------------------------------------------------------------------------
(* C28: where every ticker of a message ends.                              *)

\* C28: every ticker of every received message ends in exactly one terminal
\* state: discarded (no subject, outside market hours, or disabled
\* timeframe), suppressed (should_alert returned false), or notified and then
\* recorded; no ticker is left notified but not recorded.
C28_OneTerminalStatePerTicker ==
    (msg # NoMsg /\ msg.subject \in Subjects) =>
        \A t \in TickerSet(msg) :
            LET discarded == \E i \in 1..Len(trace) : trace[i].op = "return"
                suppressed == \E i \in CallsOf("should_alert", <<t>>) :
                                  trace[i].args[4] = FALSE
                notified == CallsOf("notify_all_platforms", <<t>>) # {}
                recorded == \E i \in CallsOf("notify_all_platforms", <<t>>),
                               j \in CallsOf("record_alert", <<t>>) : i < j
            IN /\ notified => recorded
               /\ \/ discarded /\ ~suppressed /\ ~notified
                  \/ ~discarded /\ suppressed /\ ~notified
                  \/ ~discarded /\ ~suppressed /\ notified /\ recorded

----------------------------------------------------------------------------
(* db.py: the sqlite connection of a call. A call may fail where sqlite    *)
(* raises: in sqlite3.connect, in the schema script of _get_connection, in *)
(* the statement of the call, in the commit of record_alert.               *)

\* the connections left open are counted up to this number
MaxLeaks == 2

Faults == {"none", "connect", "schema", "execute", "commit"}

\* _get_connection: sqlite3.connect(db_path), then conn.executescript(_SCHEMA)
\* and conn.commit() with no handler around them. open is the number of
\* connections that are open when it returns or raises.
get_connection(fault) ==
    IF fault = "connect" THEN [raised |-> TRUE, open |-> 0]
    ELSE IF fault = "schema" THEN [raised |-> TRUE, open |-> 1]
    ELSE [raised |-> FALSE, open |-> 1]

\* a schema script that drops the table before it creates it
executescript_drop_and_create(table) == EmptyBag

\* conn.executescript(_SCHEMA); conn.commit(): CREATE TABLE IF NOT EXISTS and
\* CREATE INDEX IF NOT EXISTS leave the rows of an existing table as they are
executescript(table) == table

\* should_alert with its connection: conn = _get_connection() stands before
\* the try whose finally closes conn. store is the rows of the table when the
\* call returns or raises.
should_alert_conn(table, ticker, timeframe, alert_date, fault) ==
    IF timeframe = "daily"
    THEN [raised |-> FALSE, result |-> TRUE, open |-> 0, store |-> table]
    ELSE
        LET conn == get_connection(fault) IN
        IF conn.raised
        THEN [raised |-> TRUE, result |-> FALSE, open |-> conn.open, store |-> table]
        ELSE IF fault = "execute"
        THEN [raised |-> TRUE, result |-> FALSE, open |-> conn.open - 1,
              store |-> executescript(table)]
        ELSE [raised |-> FALSE,
              result |-> should_alert(executescript(table), ticker, timeframe, alert_date),
              open |-> conn.open - 1,
              store |-> executescript(table)]

\* record_alert with its connection; a statement or a commit that fails
\* leaves the rows as they were
record_alert_conn(table, ticker, timeframe, alert_date, fault) ==
    IF timeframe = "daily" THEN [raised |-> FALSE, store |-> table, open |-> 0]
    ELSE
        LET conn == get_connection(fault) IN
        IF conn.raised THEN [raised |-> TRUE, store |-> table, open |-> conn.open]
        ELSE IF fault \in {"execute", "commit"}
        THEN [raised |-> TRUE, store |-> executescript(table), open |-> conn.open - 1]
        ELSE [raised |-> FALSE,
              store |-> record_alert(executescript(table), ticker, timeframe, alert_date),
              open |-> conn.open - 1]

ConnDates == {Dec23, Dec30}

\* a caller calls should_alert, which returns or raises
CallShouldAlertConn(t, tf, d, fault) ==
    /\ call = NoCall
    /\ fault # "commit"
    /\ LET done == should_alert_conn(store, t, tf, d, fault) IN
           /\ conns + done.open <= MaxLeaks
           /\ conns' = conns + done.open
           /\ store' = done.store
           /\ call' = [op |-> "should_alert", ticker |-> t, timeframe |-> tf,
                       alert_date |-> d, fault |-> fault, raised |-> done.raised,
                       result |-> done.result, before |-> conns]
    /\ UNCHANGED <<sent, trace, msg, processed, settings, mailbox, instance, clock>>

\* a caller calls record_alert, which returns or raises
CallRecordAlertConn(t, tf, d, fault) ==
    /\ call = NoCall
    /\ LET done == record_alert_conn(store, t, tf, d, fault) IN
           /\ conns + done.open <= MaxLeaks
           /\ BagCardinality(done.store) <= MaxRows
           /\ conns' = conns + done.open
           /\ store' = done.store
           /\ call' = [op |-> "record_alert", ticker |-> t, timeframe |-> tf,
                       alert_date |-> d, fault |-> fault, raised |-> done.raised,
                       result |-> TRUE, before |-> conns]
    /\ UNCHANGED <<sent, trace, msg, processed, settings, mailbox, instance, clock>>

\* the caller goes on, having caught the exception if one was raised
ReturnConn ==
    /\ call # NoCall
    /\ call' = NoCall
    /\ UNCHANGED <<store, sent, trace, msg, processed, settings, mailbox, conns, instance, clock>>

NextConn ==
    \/ \E t \in Tickers, tf \in Timeframes, d \in ConnDates, fault \in Faults :
           CallShouldAlertConn(t, tf, d, fault)
    \/ \E t \in Tickers, tf \in Timeframes, d \in ConnDates, fault \in Faults :
           CallRecordAlertConn(t, tf, d, fault)
    \/ ReturnConn

SpecConn == InitDb /\ [][NextConn]_vars

----------------------------------------------------------------------------
(* C29: the connections.                                                   *)

\* C29: every should_alert and record_alert call releases the connection it
\* opened before it returns or raises, on every path, including a failure of
\* the schema creation and a failure of the query; no connection is open
\* between the calls, while the program waits on the poll.
C29_ConnectionReleased ==
    /\ call.op \in {"should_alert", "record_alert"} => conns = call.before
    /\ conns = 0

----------------------------------------------------------------------------
(* C30: the three ranges of the gate.                                      *)

\* C30: on a session date, for every timestamp and every hours >= 0, the
\* range [open, close] and the two near ranges are pairwise disjoint and
\* together cover exactly [open - hours, close + hours]; the open and close
\* instants are accepted as in session; with hours = 0 the gate accepts
\* exactly [open, close].
C30_RangesPartitionTheWindow ==
    (call.op = "is_market_hours_or_near" /\ IsSession(Local(call.check_time).date)) =>
        LET nyc_time == Local(call.check_time)
            open == market_open(nyc_time.date)
            close == market_close(nyc_time.date)
            T == nyc_time.second
            U == nyc_time.microsecond
            H == call.hours * 3600
            session == is_time_in_range(nyc_time, open, close)
            before == is_time_in_range(nyc_time, plus_seconds(open, 0 - H),
                                       minus_microsecond(open))
            after == is_time_in_range(nyc_time, plus_microsecond(close),
                                      plus_seconds(close, H))
            InWindow(lo, hi) == lo <= T /\ (T < hi \/ (T = hi /\ U = 0))
        IN /\ ~(session /\ before) /\ ~(session /\ after) /\ ~(before /\ after)
           /\ (session \/ before \/ after) = InWindow(open.second - H, close.second + H)
           /\ call.result = InWindow(open.second - H, close.second + H)
           /\ session = InWindow(open.second, close.second)
           /\ call.hours = 0 => call.result = InWindow(open.second, close.second)

\* the open instant of a session day, asked with the default hours
C30_Witness ==
    /\ call.op = "is_market_hours_or_near"
    /\ call.check_time = datetime(Dec23, 9, 30, 0, 0, Naive)
    /\ call.hours = DefaultHours
    /\ call.result = TRUE

----------------------------------------------------------------------------
(* config.py and notification.py: the webhooks and one run of              *)
(* notify_all_platforms. A webhook URL is written by its last characters;  *)
(* <<>> stands for None and for the empty string, which are both false.    *)

\* the values of DISCORD_WEBHOOK_URL
WebhookUrl == {<<>>, <<"/", "1">>}

\* the values of DISCORD_WEBHOOK_URLS
WebhookUrls == {<<>>, <<"/", "2", ",", "/", "3">>, <<"/", "1", ",", " ", "/", "2", ",">>, <<" ", "/", "2">>}

\* the configurations that Settings() accepts
WebhookSettings ==
    {cfg \in [discord_webhook_url : WebhookUrl, discord_webhook_urls : WebhookUrls,
              mastodon : BOOLEAN] :
        ~(cfg.discord_webhook_url = <<>> /\ cfg.discord_webhook_urls = <<>>)}

\* [url for url in urls if url]
RECURSIVE non_empty(_)
non_empty(urls) ==
    IF urls = <<>> THEN <<>>
    ELSE (IF Head(urls) = <<>> THEN <<>> ELSE <<Head(urls)>>) \o non_empty(Tail(urls))

\* [url.strip() for url in urls]
stripped(urls) == [i \in 1..Len(urls) |-> strip(urls[i])]

\* the loop over seen: every url once, at its first place
RECURSIVE deduplicated(_)
deduplicated(urls) ==
    IF urls = <<>> THEN <<>>
    ELSE LET front == deduplicated(SubSeq(urls, 1, Len(urls) - 1))
             last == urls[Len(urls)]
         IN IF \E i \in 1..Len(front) : front[i] = last THEN front ELSE Append(front, last)

\* Settings.get_discord_webhook_urls
get_discord_webhook_urls(cfg) ==
    deduplicated(
        (IF cfg.discord_webhook_url # <<>> THEN <<strip(cfg.discord_webhook_url)>> ELSE <<>>)
        \o (IF cfg.discord_webhook_urls # <<>>
            THEN non_empty(stripped(split_comma(cfg.discord_webhook_urls)))
            ELSE <<>>))

\* what the collaborators of notify_all_platforms do
NotifyEnvs ==
    [fetch_ok : BOOLEAN, discord_ok : BOOLEAN, mastodon_ok : BOOLEAN, calendar_ok : {TRUE}]

\* DiscordNotifier().send(ticker_data): DiscordWebhook(url=settings.discord_webhook_url)
discord_send(ticker, env, cfg) ==
    IF env.discord_ok
    THEN [posts |-> <<[platform |-> "Discord", url |-> cfg.discord_webhook_url,
                       ticker |-> ticker]>>,
          errors |-> <<>>, raised |-> FALSE]
    ELSE [posts |-> <<>>, errors |-> <<>>, raised |-> TRUE]

\* MastodonNotifier(...).send(ticker_data): logs the error and raises it again
mastodon_send(ticker, env, cfg) ==
    IF env.mastodon_ok
    THEN [posts |-> <<[platform |-> "Mastodon", url |-> <<>>, ticker |-> ticker]>>,
          errors |-> <<>>, raised |-> FALSE]
    ELSE [posts |-> <<>>, errors |-> <<"Failed to post Mastodon status">>, raised |-> TRUE]

\* notify_all_platforms that goes on to the senders after a failed fetch
notify_all_platforms_run_on(ticker, env, cfg) ==
    LET fetch == IF env.fetch_ok THEN <<>> ELSE <<"Failed to fetch ticker data">>
        discord == discord_send(ticker, env, cfg)
        mastodon == mastodon_send(ticker, env, cfg)
        Failed(send) == IF send.raised THEN <<"Failed to send notification">> ELSE <<>>
    IN [errors |-> fetch
                   \o (IF cfg.discord_webhook_url # <<>>
                       THEN discord.errors \o Failed(discord) ELSE <<>>)
                   \o (IF cfg.mastodon THEN mastodon.errors \o Failed(mastodon) ELSE <<>>),
        invoked |-> (IF cfg.discord_webhook_url # <<>> THEN <<"Discord">> ELSE <<>>)
                    \o (IF cfg.mastodon THEN <<"Mastodon">> ELSE <<>>),
        posts |-> (IF cfg.discord_webhook_url # <<>> THEN discord.posts ELSE <<>>)
                  \o (IF cfg.mastodon THEN mastodon.posts ELSE <<>>),
        raised |-> FALSE]

\* notify_all_platforms: the errors it logs, the senders it invokes, the posts
\* that go out, and whether it raises
notify_all_platforms_run(ticker, env, cfg) ==
    IF ~env.fetch_ok
    THEN [errors |-> <<"Failed to fetch ticker data">>, invoked |-> <<>>, posts |-> <<>>,
          raised |-> FALSE]
    ELSE
        LET discord == discord_send(ticker, env, cfg)
            mastodon == mastodon_send(ticker, env, cfg)
            Failed(send) == IF send.raised THEN <<"Failed to send notification">> ELSE <<>>
        IN [errors |-> (IF cfg.discord_webhook_url # <<>>
                        THEN discord.errors \o Failed(discord) ELSE <<>>)
                       \o (IF cfg.mastodon THEN mastodon.errors \o Failed(mastodon) ELSE <<>>),
            invoked |-> (IF cfg.discord_webhook_url # <<>> THEN <<"Discord">> ELSE <<>>)
                        \o (IF cfg.mastodon THEN <<"Mastodon">> ELSE <<>>),
            posts |-> (IF cfg.discord_webhook_url # <<>> THEN discord.posts ELSE <<>>)
                      \o (IF cfg.mastodon THEN mastodon.posts ELSE <<>>),
            raised |-> FALSE]

InitNotify ==
    /\ store = EmptyBag
    /\ call = NoCall
    /\ sent = <<>>
    /\ trace = <<>>
    /\ msg = NoMsg
    /\ processed = 0
    /\ mailbox = NoMailbox
    /\ conns = 0 /\ instance = NoInstance /\ clock = NoClock
    /\ settings \in WebhookSettings

\* a caller calls notify_all_platforms(ticker)
CallNotifyAllPlatforms(ticker, env) ==
    /\ call = NoCall
    /\ LET run == notify_all_platforms_run(ticker, env, settings)
       IN /\ call' = [op |-> "notify_all_platforms", ticker |-> ticker, env |-> env,
                      errors |-> run.errors, invoked |-> run.invoked,
                      posts |-> run.posts, raised |-> run.raised]
          /\ sent' = run.posts
    /\ UNCHANGED <<store, trace, msg, processed, settings, mailbox, conns, instance, clock>>

NextNotify ==
    \/ \E ticker \in {AAPL, MSFT}, env \in NotifyEnvs : CallNotifyAllPlatforms(ticker, env)
    \/ Return

SpecNotify == InitNotify /\ [][NextNotify]_vars

----------------------------------------------------------------------------
(* C31, C32: the dispatch.                                                 *)

\* C31: if fetching the ticker data fails, notify_all_platforms logs exactly
\* one error, invokes no platform sender and returns normally, so that the
\* caller cannot tell that nothing was sent.
C31_FetchFailureIsSilent ==
    (call.op = "notify_all_platforms" /\ ~call.env.fetch_ok) =>
        /\ Len(call.errors) = 1
        /\ call.invoked = <<>>
        /\ call.posts = <<>>
        /\ ~call.raised

\* the fetch failed with Discord and Mastodon configured and answering
C31_Witness ==
    /\ call.op = "notify_all_platforms" /\ ~call.env.fetch_ok
    /\ call.env.discord_ok /\ call.env.mastodon_ok
    /\ settings.discord_webhook_url # <<>> /\ settings.mastodon

\* C32: an admitted ticker's notification is dispatched to all configured
\* platform senders: every configured Discord webhook URL (the legacy single
\* URL and each entry of the comma-separated list, as returned by
\* get_discord_webhook_urls) receives it, and a configuration that validates
\* with only discord_webhook_urls set still sends to Discord.
C32_EveryWebhookReceives ==
    (/\ call.op = "notify_all_platforms"
     /\ call.env.fetch_ok /\ call.env.discord_ok /\ call.env.mastodon_ok) =>
        LET urls == get_discord_webhook_urls(settings)
        IN /\ urls # <<>>
           /\ \A i \in 1..Len(urls) :
                  \E k \in 1..Len(call.posts) :
                      /\ call.posts[k].platform = "Discord"
                      /\ strip(call.posts[k].url) = urls[i]
                      /\ call.posts[k].ticker = call.ticker

----------------------------------------------------------------------------
(* utils.py: is_market_hours_or_near() called without check_time. The      *)
(* default of the parameter, datetime.now(), is evaluated when the def     *)
(* statement runs, that is when utils.py is imported.                      *)

\* the instants of the clock, in order
ClockTimes ==
    << datetime(Dec23, 8, 29, 59, 0, Naive), datetime(Dec23, 9, 30, 0, 0, Naive),
       datetime(Dec23, 12, 0, 0, 0, Naive), datetime(Dec23, 17, 0, 1, 0, Naive),
       datetime(Dec23, 23, 30, 0, 0, Naive), datetime(date(2024, 12, 24), 12, 0, 0, 0, Naive),
       datetime(date(2024, 12, 25), 12, 0, 0, 0, Naive),
       datetime(date(2024, 12, 28), 12, 0, 0, 0, Naive),
       datetime(Dec30, 16, 0, 0, 0, Naive) >>

\* import hvcwatch.utils at one of the instants: the def statement evaluates
\* datetime.now() and keeps it as the default of check_time
InitClock ==
    /\ store = EmptyBag
    /\ call = NoCall
    /\ sent = <<>>
    /\ trace = <<>>
    /\ msg = NoMsg
    /\ processed = 0
    /\ mailbox = NoMailbox
    /\ conns = 0 /\ instance = NoInstance
    /\ settings = DefaultSettings
    /\ \E i \in 1..Len(ClockTimes) : clock = [now |-> i, check_time |-> ClockTimes[i]]

\* time passes
Tick ==
    /\ call = NoCall
    /\ clock.now < Len(ClockTimes)
    /\ clock' = [clock EXCEPT !.now = @ + 1]
    /\ UNCHANGED <<store, call, sent, trace, msg, processed, settings, mailbox, conns, instance>>

\* is_market_hours_or_near(hours=h), or is_market_hours_or_near() when h is
\* the default: check_time takes its default
CallGateNow(h) ==
    /\ call = NoCall
    /\ call' = [op |-> "is_market_hours_or_near", check_time |-> clock.check_time,
                hours |-> h, called_at |-> ClockTimes[clock.now],
                result |-> is_market_hours_or_near(clock.check_time, h)]
    /\ UNCHANGED <<store, sent, trace, msg, processed, settings, mailbox, conns, instance, clock>>

NextClock == Tick \/ (\E h \in HoursSet : CallGateNow(h)) \/ Return

SpecClock == InitClock /\ [][NextClock]_vars

----------------------------------------------------------------------------
(* C33: the gate without a check_time.                                     *)

\* C33: is_market_hours_or_near called without a check_time evaluates the
\* gate at the current time of each call: two calls made at different times
\* are each judged against the clock at their own call, not against the time
\* the module was loaded.
C33_DefaultIsTheTimeOfTheCall ==
    [][(call'.op = "is_market_hours_or_near" /\ call = NoCall) =>
          call'.result = is_market_hours_or_near(ClockTimes[clock.now], call'.hours)]_vars

----------------------------------------------------------------------------
(* db.py called with a timeframe outside TimeframeType, which Python does  *)
(* not check at run time.                                                  *)

AnyTimeframes == Timeframes \cup {"hourly"}

NextDbAny ==
    \/ \E t \in {AAPL, aapl}, tf \in AnyTimeframes, d \in ConnDates : CallShouldAlert(t, tf, d)
    \/ \E t \in {AAPL, aapl}, tf \in AnyTimeframes, d \in ConnDates : CallRecordAlert(t, tf, d)
    \/ Return

SpecDbAny == InitDb /\ [][NextDbAny]_vars

----------------------------------------------------------------------------
(* C34: unknown timeframes.                                                *)

\* C34: should_alert with a timeframe value other than daily, weekly or
\* monthly returns true, whether or not rows exist for that ticker and
\* timeframe value.
C34_UnknownTimeframeIsAdmitted ==
    (call.op = "should_alert" /\ call.timeframe \notin Timeframes) => call.result = TRUE

\* should_alert was asked for an unknown timeframe and a date for which a row
\* of that ticker and timeframe exists
C34_Witness ==
    /\ call.op = "should_alert" /\ call.timeframe \notin Timeframes
    /\ Row(upper(call.ticker), call.timeframe, isoformat(call.alert_date)) \in BagToSet(store)
    /\ call.result = TRUE

----------------------------------------------------------------------------
(* C35: the colon after "symbols".                                         *)

\* the result for the subject of the call with the colon put after "symbols"
ResultWithColon ==
    extract_tickers(WithColon.text \o join(<<",", " ">>, call.tokens) \o call.tail.text)

\* C35 as stated: the colon after "symbol"/"symbols" is optional:
\* extract_tickers returns the same ticker list for a subject of the form
\* "symbols AAPL, MSFT were added" as for "symbols: AAPL, MSFT were added".
C35_ColonIsOptional ==
    (call.op = "extract_tickers" /\ call.head = NoColon) => call.result = ResultWithColon

\* C35: the colon after "symbol"/"symbols" is required: for a subject of the
\* form "symbols AAPL, MSFT were added" extract_tickers returns the empty
\* list, whatever it returns for "symbols: AAPL, MSFT were added".
C35_ColonIsRequired ==
    (call.op = "extract_tickers" /\ call.head = NoColon) =>
        /\ call.result = <<>>
        /\ call.tail.matches => ResultWithColon = Listed(call.tokens)

\* a subject without the colon whose list, with the colon, gives two tickers
C35_Witness ==
    /\ call.op = "extract_tickers" /\ call.head = NoColon
    /\ call.result = <<>>
    /\ ResultWithColon = <<AAPL, MSFT>>

----------------------------------------------------------------------------
(* C36: admission of messages that arrive in the order of their dates.     *)

\* C36: when a single pipeline instance processes messages whose dates are
\* non-decreasing and no store operation fails, at most one notification is
\* dispatched per (ticker, Monday-based week) for weekly alerts and per
\* (ticker, year, month) for monthly alerts. Stated for the first two
\* messages of a run: a ticker notified for the first is not notified for
\* the second when the second is dated no earlier and in the same period.
C36_InOrderAdmission ==
    [][(/\ Processes /\ processed = 1
        /\ PassedFilters(msg) /\ PassedFilters(msg')
        /\ TimeframeOf[msg.subject] \in Deduplicated
        /\ TimeframeOf[msg'.subject] = TimeframeOf[msg.subject]
        /\ toordinal(msg.date.date) <= toordinal(msg'.date.date)
        /\ SamePeriod(TimeframeOf[msg.subject], msg.date.date, msg'.date.date)) =>
          \A t \in TickerSet(msg) :
              CallsIn(trace, "notify_all_platforms", <<t>>) # {} =>
                  CallsIn(trace', "notify_all_platforms", <<t>>) = {}]_vars

----------------------------------------------------------------------------
(* C37: should_alert and the rows.                                         *)

\* C37: should_alert is read-only on alert rows: for every timeframe, ticker,
\* date and result, whether it returns or raises, it never adds, removes or
\* changes a row of the store.
C37_ShouldAlertKeepsTheRows ==
    [][(call = NoCall /\ call'.op = "should_alert") => store' = store]_vars

\* should_alert opened a connection on a store with rows and answered no
C37_Witness ==
    /\ call.op = "should_alert" /\ ~call.raised /\ call.result = FALSE
    /\ store # EmptyBag

----------------------------------------------------------------------------
(* C38: what the pipeline records.                                         *)

\* the call at position j of tr is a record_alert that follows, in tr, a
\* should_alert with its arguments that returned true and then a dispatch for
\* its ticker and timeframe
RecordFollowsDispatch(tr, j) ==
    /\ tr[j].op = "record_alert"
    /\ \E i, k \in 1..Len(tr) :
           /\ i < k /\ k < j
           /\ tr[i] = Event("should_alert", tr[j].args \o <<TRUE>>)
           /\ tr[k] = Event("notify_all_platforms", <<tr[j].args[1], tr[j].args[2]>>)

----------------------------------------------------------------------------
(* C39: the symbols extract_tickers returns.                               *)

\* s has no leading and no trailing whitespace, no lower-case letter and
\* no "/"
Normalised(s) ==
    /\ s # <<>> => (~IsSpace(s[1]) /\ ~IsSpace(s[Len(s)]))
    /\ \A i \in 1..Len(s) : upper_char(s[i]) = s[i]
    /\ \A i \in 1..Len(s) : s[i] # "/"

\* C39 as stated: every symbol returned by extract_tickers is a non-empty,
\* whitespace-trimmed, uppercase token that does not contain "/", for every
\* subject including ones with empty list entries such as consecutive or
\* trailing commas.
C39_SymbolsAreNonEmpty ==
    call.op = "extract_tickers" =>
        \A i \in 1..Len(call.result) :
            call.result[i] # <<>> /\ Normalised(call.result[i])

\* C39: every symbol returned by extract_tickers is a whitespace-trimmed,
\* uppercase token that does not contain "/"; it is empty exactly for an empty
\* list entry, so a matched list with consecutive or trailing commas yields
\* one empty symbol per empty entry.
C39_SymbolsAreNormalised ==
    call.op = "extract_tickers" =>
        /\ \A i \in 1..Len(call.result) : Normalised(call.result[i])
        /\ (call.head.matches /\ call.tail.matches) =>
               /\ Len(call.result) = Len(Listed(call.tokens))
               /\ \A i \in 1..Len(call.result) :
                      call.result[i] = <<>> <=> Listed(call.tokens)[i] = <<>>

\* "... symbols: AAPL, , were added ..." gave AAPL and two empty symbols
C39_Witness ==
    /\ call.op = "extract_tickers"
    /\ call.tokens = <<[text |-> AAPL, tickers |-> <<AAPL>>], Comma>>
    /\ call.result = <<AAPL, <<>>, <<>> >>

====
